---- MODULE Spec2Model ----
(***************************************************************************)
(* JSONVault: the key/value store kept in dynamicConfig.json, the put and  *)
(* get handlers, the expiry middleware that runs before every request, and *)
(* the static-file handler.                                                *)
(*                                                                         *)
(* JavaScript values are tagged records [t |-> <typeof>, v |-> <value>].   *)
(* Strings are sequences of one-character strings so that trim, startsWith *)
(* and JSON.parse can be computed character by character.                  *)
(***************************************************************************)
EXTENDS Integers, Sequences, FiniteSets, TLC

\* ------------------------------------------------------------------ bounds
\* Request slots that may be in flight at the same time.
NumSlots == 2
\* Requests accepted over one behaviour.
MaxRequests == 3
\* Times the clock is advanced over one behaviour.
MaxTicks == 3
\* Path segments in a requested static filename.
MaxSegs == 2

Slots == 1..NumSlots

\* ------------------------------------------------------------- JS values
Undefined == [t |-> "undefined"]
Null == [t |-> "null"]
Num(n) == [t |-> "number", v |-> n]
Bool(b) == [t |-> "boolean", v |-> b]
Str(s) == [t |-> "string", v |-> s]
\* An object is the sequence of its <<name, value>> members, an array the
\* sequence of its elements.
Obj(members) == [t |-> "object", v |-> members]
Arr(elems) == [t |-> "array", v |-> elems]

\* JavaScript's ToBoolean, as used by the ! operator.
Truthy(x) ==
    CASE x.t = "undefined" -> FALSE
      [] x.t = "null" -> FALSE
      [] x.t = "boolean" -> x.v
      [] x.t = "number" -> x.v # 0
      [] x.t = "string" -> x.v # <<>>
      [] OTHER -> TRUE

IsString(x) == x.t = "string"

\* ----------------------------------------------------------------- strings
WhiteSpace == {" ", "\t", "\n"}

RECURSIVE TrimStart(_)
TrimStart(s) ==
    IF s # <<>> /\ Head(s) \in WhiteSpace THEN TrimStart(Tail(s)) ELSE s

RECURSIVE TrimEnd(_)
TrimEnd(s) ==
    IF s # <<>> /\ s[Len(s)] \in WhiteSpace
    THEN TrimEnd(SubSeq(s, 1, Len(s) - 1))
    ELSE s

\* String.prototype.trim
Trim(s) == TrimEnd(TrimStart(s))

\* String.prototype.startsWith
StartsWith(s, p) == Len(s) >= Len(p) /\ SubSeq(s, 1, Len(p)) = p

\* ---------------------------------------------------------------- JSON.parse
\* JSON.parse on the fragment of JSON the inputs are drawn from: the three
\* literals, a one-digit number, a string without escapes, the empty array,
\* the empty object and an object of one member whose value is a scalar of
\* this fragment.  Anything else is a SyntaxError.
Digits == {"0", "1", "2", "3", "4", "5", "6", "7", "8", "9"}

DigitVal(c) ==
    CASE c = "0" -> 0 [] c = "1" -> 1 [] c = "2" -> 2 [] c = "3" -> 3
      [] c = "4" -> 4 [] c = "5" -> 5 [] c = "6" -> 6 [] c = "7" -> 7
      [] c = "8" -> 8 [] c = "9" -> 9

SyntaxError == [ok |-> FALSE]
Parsed(x) == [ok |-> TRUE, value |-> x]

IsQuoted(t) ==
    /\ Len(t) >= 2
    /\ t[1] = "\""
    /\ t[Len(t)] = "\""
    /\ \A i \in 2..(Len(t) - 1) : t[i] \notin {"\"", "\\"}

ParseScalar(t) ==
    IF t = <<"n", "u", "l", "l">> THEN Parsed(Null)
    ELSE IF t = <<"t", "r", "u", "e">> THEN Parsed(Bool(TRUE))
    ELSE IF t = <<"f", "a", "l", "s", "e">> THEN Parsed(Bool(FALSE))
    ELSE IF Len(t) = 1 /\ t[1] \in Digits THEN Parsed(Num(DigitVal(t[1])))
    ELSE IF IsQuoted(t) THEN Parsed(Str(SubSeq(t, 2, Len(t) - 1)))
    ELSE SyntaxError

\* The index of the first ":" of t, or 0.
RECURSIVE ColonAt(_, _)
ColonAt(t, i) ==
    IF i > Len(t) THEN 0 ELSE IF t[i] = ":" THEN i ELSE ColonAt(t, i + 1)

ParseObject(t) ==
    LET inner == Trim(SubSeq(t, 2, Len(t) - 1))
        c == ColonAt(inner, 1)
        name == Trim(SubSeq(inner, 1, c - 1))
        val == ParseScalar(Trim(SubSeq(inner, c + 1, Len(inner))))
    IN  IF inner = <<>> THEN Parsed(Obj(<<>>))
        ELSE IF c = 0 \/ ~IsQuoted(name) \/ ~val.ok THEN SyntaxError
        ELSE Parsed(Obj(<<<<SubSeq(name, 2, Len(name) - 1), val.value>>>>))

JSONParse(s) ==
    LET t == Trim(s)
    IN  IF Len(t) >= 2 /\ t[1] = "{" /\ t[Len(t)] = "}" THEN ParseObject(t)
        ELSE IF Len(t) >= 2 /\ t[1] = "[" /\ t[Len(t)] = "]"
        THEN IF Trim(SubSeq(t, 2, Len(t) - 1)) = <<>>
             THEN Parsed(Arr(<<>>))
             ELSE SyntaxError
        ELSE ParseScalar(t)

\* -------------------------------------------------------------------- dates
MsPerHour == 1000 * 60 * 60
MsPerDay == 1000 * 60 * 60 * 24

\* Date.prototype.toISOString: the instant split into its fields, to the
\* millisecond (the date part is kept as a count of days).
ToISOString(ms) ==
    [day |-> ms \div MsPerDay,
     hour |-> (ms % MsPerDay) \div MsPerHour,
     minute |-> (ms % MsPerHour) \div 60000,
     second |-> (ms % 60000) \div 1000,
     milli |-> ms % 1000]

\* new Date(dateString): the instant an ISO string denotes.
DateParse(iso) ==
    iso.day * MsPerDay + iso.hour * MsPerHour + iso.minute * 60000
        + iso.second * 1000 + iso.milli

\* compareDateInDays returns the quotient diffMs / (1000 * 60 * 60 * 24) as a
\* floating-point number; it is kept here as numerator and denominator.
compareDateInDays(dateString, at) ==
    [num |-> at - DateParse(dateString), den |-> MsPerDay]

\* q < n for a quotient q with a positive denominator.
QuotientLess(q, n) == q.num < n * q.den

\* A variant of the filter predicate that keeps a Mapping of exactly one day.
IsFreshInclusive(mapping, at) ==
    LET q == compareDateInDays(mapping.storedDate, at)
    IN  q.num <= 1 * q.den

\* The filter predicate of removeDayOldData: compareDateInDays(...) < 1.
IsFresh(mapping, at) ==
    QuotientLess(compareDateInDays(mapping.storedDate, at), 1)

\* --------------------------------------------------------------------- state
VARIABLES
    file,       \* dynamicConfig.json: [state, mappings]
    now,        \* the clock, in milliseconds
    ticks,      \* times the clock was advanced
    arrived,    \* requests accepted so far
    pc,         \* each slot's position in the middleware chain
    req,        \* each slot's request
    cfg,        \* each slot's local config.mappings between load and save
    filtered,   \* removeDayOldData's filteredMappings
    resp,       \* each slot's response
    nextCalls,  \* times removeDayOldData called next() for the slot's request
    logged,     \* what logError was called with for the slot's request
    putLog      \* the last two puts answered since the clock last advanced

vars ==
    <<file, now, ticks, arrived, pc, req, cfg, filtered, resp,
      nextCalls, logged, putLog>>

NoReq == [kind |-> "none"]
NoResp == [status |-> 0]

\* The document { mappings: [...] } on disk.
Stored(mappings) == [state |-> "ok", mappings |-> mappings]
Absent == [state |-> "absent", mappings |-> <<>>]
\* Content that JSON.parse rejects or that has no mappings array.
Malformed == [state |-> "malformed", mappings |-> <<>>]

Mapping(key, data, storedDate) ==
    [key |-> key, data |-> data, storedDate |-> storedDate]

\* Array.prototype.findIndex with the predicate mapping.key === key, 1-based;
\* 0 when nothing matches (-1 in JS).
FindIndex(mappings, key) ==
    IF \E i \in 1..Len(mappings) : mappings[i].key = key
    THEN CHOOSE i \in 1..Len(mappings) :
            /\ mappings[i].key = key
            /\ \A j \in 1..(i - 1) : mappings[j].key # key
    ELSE 0

\* -------------------------------------------------------------------- inputs
KeyA == <<"a">>
KeySpaceA == <<" ", "a">>
KeyB == <<"b">>

\* { "a": 1 } and { "b": 2 } as express.json() hands them over.
ObjA == Obj(<<<<(<<"a">>), Num(1)>>>>)
ObjB == Obj(<<<<(<<"b">>), Num(2)>>>>)
\* The text {"a":1} and a text that is not JSON.
TextObjA == <<"{", "\"", "a", "\"", ":", "1", "}">>
TextBad == <<"{", "a">>

\* req.body as express.json() leaves it: accepted bodies, bodies whose key is
\* rejected and bodies whose data is rejected.
Body(key, data) == [key |-> key, data |-> data]

PutBodies ==
    {Body(Str(KeyA), ObjA), Body(Str(KeyA), ObjB), Body(Str(KeyA), Str(TextObjA)),
     Body(Str(KeySpaceA), ObjA), Body(Str(KeySpaceA), ObjB),
     Body(Str(KeyB), ObjB),
     Body(Undefined, ObjA), Body(Null, ObjA), Body(Num(42), ObjA),
     Body(Str(<<>>), ObjA), Body(Str(<<" ">>), ObjA), Body(Null, Undefined),
     Body(Str(KeyA), Undefined), Body(Str(KeyA), Str(TextBad)),
     Body(Str(KeyA), Num(0))}

\* req.query.id: absent, repeated (?id=a&id=b gives an array) or a string.
GetIds ==
    {Undefined, Arr(<<Str(KeyA), Str(KeyB)>>), Str(<<>>), Str(<<" ">>),
     Str(KeyA), Str(KeySpaceA), Str(KeyB)}

\* The inputs of the requests that overlap: two keys, one value each.
RaceBodies == {Body(Str(KeyA), ObjA), Body(Str(KeyB), ObjB)}
RaceIds == {Str(KeyA), Str(KeyB)}

\* Hours the clock may jump by.
TickHours == {1, 23}

\* ------------------------------------------------------------ initial state
Init ==
    /\ file \in {Absent, Stored(<<>>), Malformed}
    /\ now = 0
    /\ ticks = 0
    /\ arrived = 0
    /\ pc = [r \in Slots |-> "idle"]
    /\ req = [r \in Slots |-> NoReq]
    /\ cfg = [r \in Slots |-> <<>>]
    /\ filtered = [r \in Slots |-> <<>>]
    /\ resp = [r \in Slots |-> NoResp]
    /\ nextCalls = [r \in Slots |-> 0]
    /\ logged = [r \in Slots |-> <<>>]
    /\ putLog = <<>>

\* ------------------------------------------------------------- environment
\* A response is on its way out.  Its finish event touches nothing another
\* request reads, so it is taken before any other step: the other actions wait
\* for it.
Flushing == \E q \in Slots : pc[q] = "done"

\* A request of one of `kinds` enters the middleware chain in a free slot.
Accept(r, kinds) ==
    /\ ~Flushing
    /\ pc[r] = "idle"
    /\ arrived < MaxRequests
    /\ \E kind \in kinds :
        req' = [req EXCEPT ![r] = [kind |-> kind, seq |-> arrived + 1]]
    /\ arrived' = arrived + 1
    /\ pc' = [pc EXCEPT ![r] = "sweep"]
    /\ UNCHANGED <<file, now, ticks, cfg, filtered, resp, nextCalls,
                   logged, putLog>>

\* POST /setData or GET /get arrives, whatever the other slots are doing.
Arrive(r) == Accept(r, {"put", "get"})

\* The same, with no other request in flight.
ArriveAlone(r) ==
    /\ r = 1
    /\ \A q \in Slots : pc[q] = "idle"
    /\ Accept(r, {"put", "get"})

\* GET / or GET /:filename arrives.
ArriveStatic(r) == Accept(r, {"static"})

\* The response has been sent; the request and its locals are gone.
Finish(r) ==
    /\ pc[r] = "done"
    /\ pc' = [pc EXCEPT ![r] = "idle"]
    /\ req' = [req EXCEPT ![r] = NoReq]
    /\ cfg' = [cfg EXCEPT ![r] = <<>>]
    /\ filtered' = [filtered EXCEPT ![r] = <<>>]
    /\ resp' = [resp EXCEPT ![r] = NoResp]
    /\ nextCalls' = [nextCalls EXCEPT ![r] = 0]
    /\ logged' = [logged EXCEPT ![r] = <<>>]
    /\ UNCHANGED <<file, now, ticks, arrived, putLog>>

\* Hours pass between requests: a request is handled within milliseconds, so
\* every step of a request in flight reads the same hour.
Tick ==
    /\ \A q \in Slots : pc[q] = "idle"
    /\ ticks < MaxTicks
    /\ ticks' = ticks + 1
    /\ \E h \in TickHours : now' = now + h * MsPerHour
    /\ putLog' = <<>>
    /\ UNCHANGED <<file, arrived, pc, req, cfg, filtered, resp,
                   nextCalls, logged>>

\* -------------------------------------------------------- removeDayOldData
\* Every fs call below may fail (\E fault); a failed call throws.

\* next(): control passes to logger and on to the route's handler.
CallNext(r) ==
    /\ pc' = [pc EXCEPT ![r] = "handler"]
    /\ nextCalls' = [nextCalls EXCEPT ![r] = @ + 1]
    /\ resp' = resp

\* A variant of the catch block that answers the request itself.
SweepCatchAnswers(r, err) ==
    /\ logged' = [logged EXCEPT ![r] = Append(@, err)]
    /\ pc' = [pc EXCEPT ![r] = "done"]
    /\ nextCalls' = nextCalls
    /\ resp' = [resp EXCEPT ![r] = [status |-> 500]]

\* catch (err) { await logError(err); console.error(...); next(); }
\* err is "load" when readConfigFile threw and "save" when the handler's own
\* writeConfigFile did.
SweepCatch(r, err) ==
    /\ logged' = [logged EXCEPT ![r] = Append(@, err)]
    /\ CallNext(r)

\* config.mappings.filter(m => compareDateInDays(m.storedDate) < 1)
FilterFresh(mappings, at) == SelectSeq(mappings, LAMBDA m : IsFresh(m, at))

\* try { config = await readConfigFile(); filter; ... }: the read of the file
\* and everything that runs synchronously after it.
removeDayOldData(r) ==
    /\ ~Flushing
    /\ pc[r] = "sweep"
    /\ \E fault \in BOOLEAN :
        IF fault \/ file.state = "malformed"
        THEN /\ SweepCatch(r, "load")
             /\ UNCHANGED <<cfg, filtered>>
        ELSE IF file.state = "absent"
        THEN /\ pc' = [pc EXCEPT ![r] = "sweepInit"]
             /\ UNCHANGED <<cfg, filtered, resp, nextCalls, logged>>
        ELSE /\ cfg' = [cfg EXCEPT ![r] = file.mappings]
             /\ filtered' = [filtered EXCEPT ![r] = FilterFresh(file.mappings, now)]
             /\ logged' = logged
             /\ IF Len(FilterFresh(file.mappings, now)) # Len(file.mappings)
                THEN /\ pc' = [pc EXCEPT ![r] = "sweepWrite"]
                     /\ UNCHANGED <<resp, nextCalls>>
                ELSE CallNext(r)
    /\ UNCHANGED <<file, now, ticks, arrived, req, putLog>>

\* readConfigFile found no file: await writeConfigFile({ mappings: [] }) and
\* return { mappings: [] }, of which the filter removes nothing.
SweepInit(r) ==
    /\ ~Flushing
    /\ pc[r] = "sweepInit"
    /\ \E fault \in BOOLEAN :
        IF fault
        THEN /\ SweepCatch(r, "load")
             /\ file' = file
        ELSE /\ file' = Stored(<<>>)
             /\ logged' = logged
             /\ CallNext(r)
    /\ cfg' = [cfg EXCEPT ![r] = <<>>]
    /\ filtered' = [filtered EXCEPT ![r] = <<>>]
    /\ UNCHANGED <<now, ticks, arrived, req, putLog>>

\* await writeConfigFile({ mappings: filteredMappings }); next();
SweepWrite(r) ==
    /\ ~Flushing
    /\ pc[r] = "sweepWrite"
    /\ \E fault \in BOOLEAN :
        IF fault
        THEN /\ SweepCatch(r, "save")
             /\ file' = file
        ELSE /\ file' = Stored(filtered[r])
             /\ logged' = logged
             /\ CallNext(r)
    /\ UNCHANGED <<now, ticks, arrived, req, cfg, filtered, putLog>>

\* ------------------------------------------------------------ setDynamicConfig
\* encodeURIComponent on the characters keys are made of.
RECURSIVE EncodeURIComponent(_)
EncodeURIComponent(s) ==
    IF s = <<>> THEN <<>>
    ELSE (IF Head(s) = " " THEN <<"%", "2", "0">> ELSE <<Head(s)>>)
            \o EncodeURIComponent(Tail(s))

\* A variant of the key check that leaves out key.trim() === "".
KeyRejectedNoTrim(key) == ~Truthy(key) \/ ~IsString(key)

\* !key || typeof key !== "string" || key.trim() === ""
KeyRejected(key) ==
    ~Truthy(key) \/ ~IsString(key) \/ Trim(key.v) = <<>>

\* !jsonData, or a string that JSON.parse throws on
DataRejected(data) ==
    ~Truthy(data) \/ (IsString(data) /\ ~JSONParse(data.v).ok)

\* typeof jsonData === "string" ? JSON.parse(jsonData) : jsonData
ParsedData(data) == IF IsString(data) THEN JSONParse(data.v).value ELSE data

\* config.mappings.findIndex((mapping) => mapping.key === key)
ExistingIndex(mappings, key) == FindIndex(mappings, key)

\* newMapping replaces the Mapping at existingIndex or is pushed.
Upsert(mappings, key, parsedData, at) ==
    LET newMapping == Mapping(Trim(key), parsedData, ToISOString(at))
        existingIndex == ExistingIndex(mappings, key)
    IN  IF existingIndex # 0
        THEN [mappings EXCEPT ![existingIndex] = newMapping]
        ELSE Append(mappings, newMapping)

\* The slot's request is answered; a put is written to putLog.
Answer(r, request, response) ==
    /\ pc' = [pc EXCEPT ![r] = "done"]
    /\ resp' = [resp EXCEPT ![r] = response]
    /\ putLog' =
        IF request.kind = "put"
        THEN Append(IF Len(putLog) < 2 THEN putLog ELSE Tail(putLog),
                    [seq |-> request.seq, key |-> request.key,
                     data |-> request.data, status |-> response.status])
        ELSE putLog

PutOk(key) ==
    [status |-> 200, key |-> Trim(key),
     accessUrl |-> <<"/getData?id=">> \o EncodeURIComponent(Trim(key))]

\* The handler up to and including the read of the file by readConfigFile,
\* and the update of config.mappings that follows the read synchronously.
SetDynamicConfigOf(r, bodies) ==
    /\ ~Flushing
    /\ pc[r] = "handler"
    /\ req[r].kind = "put"
    /\ \E body \in bodies, fault \in BOOLEAN :
        LET key == body.key
            data == body.data
            request == [kind |-> "put", seq |-> req[r].seq,
                        key |-> key, data |-> data]
        IN  /\ req' = [req EXCEPT ![r] = request]
            /\ IF KeyRejected(key) \/ DataRejected(data)
               THEN /\ Answer(r, request, [status |-> 400])
                    /\ UNCHANGED <<cfg, logged>>
               ELSE IF fault \/ file.state = "malformed"
               THEN /\ Answer(r, request, [status |-> 500])
                    /\ logged' = [logged EXCEPT ![r] = Append(@, "load")]
                    /\ cfg' = cfg
               ELSE IF file.state = "absent"
               THEN /\ pc' = [pc EXCEPT ![r] = "putInit"]
                    /\ UNCHANGED <<cfg, resp, logged, putLog>>
               ELSE /\ pc' = [pc EXCEPT ![r] = "putSave"]
                    /\ cfg' = [cfg EXCEPT ![r] =
                                Upsert(file.mappings, key.v, ParsedData(data), now)]
                    /\ UNCHANGED <<resp, logged, putLog>>
    /\ UNCHANGED <<file, now, ticks, arrived, filtered, nextCalls>>

\* POST /setData with any of the bodies.
setDynamicConfig(r) == SetDynamicConfigOf(r, PutBodies)

\* POST /setData with one of the bodies that race.
setDynamicConfigRace(r) == SetDynamicConfigOf(r, RaceBodies)

\* readConfigFile found no file: it writes { mappings: [] } and returns it,
\* and the handler pushes newMapping.
PutInit(r) ==
    /\ ~Flushing
    /\ pc[r] = "putInit"
    /\ \E fault \in BOOLEAN :
        IF fault
        THEN /\ Answer(r, req[r], [status |-> 500])
             /\ logged' = [logged EXCEPT ![r] = Append(@, "load")]
             /\ UNCHANGED <<file, cfg>>
        ELSE /\ file' = Stored(<<>>)
             /\ pc' = [pc EXCEPT ![r] = "putSave"]
             /\ cfg' = [cfg EXCEPT ![r] =
                         Upsert(<<>>, req[r].key.v, ParsedData(req[r].data), now)]
             /\ UNCHANGED <<resp, logged, putLog>>
    /\ UNCHANGED <<now, ticks, arrived, req, filtered, nextCalls>>

\* A variant of the write that writes the Mapping into the file as it is now.
SavedMerged(r) ==
    Upsert(file.mappings, req[r].key.v, ParsedData(req[r].data), now)

\* What writeConfigFile(config) writes: the handler's own config.
Saved(r) == cfg[r]

\* await writeConfigFile(config); return res.status(200).json(...)
PutSave(r) ==
    /\ ~Flushing
    /\ pc[r] = "putSave"
    /\ \E fault \in BOOLEAN :
        IF fault
        THEN /\ Answer(r, req[r], [status |-> 500])
             /\ logged' = [logged EXCEPT ![r] = Append(@, "save")]
             /\ file' = file
        ELSE /\ file' = Stored(Saved(r))
             /\ Answer(r, req[r], PutOk(req[r].key.v))
             /\ logged' = logged
    /\ UNCHANGED <<now, ticks, arrived, req, cfg, filtered, nextCalls>>

\* -------------------------------------------------------- getDynamicConfigData
\* !id || typeof id !== "string" || id.trim() === ""
IdRejected(id) == ~Truthy(id) \/ ~IsString(id) \/ Trim(id.v) = <<>>

\* A variant of the lookup that compares the id as it was sent.
FoundIndexUntrimmed(mappings, id) ==
    FindIndex(mappings, id)

\* config.mappings.find((m) => m.key === id.trim()), as an index
FoundIndex(mappings, id) ==
    FindIndex(mappings, Trim(id))

GetOk(mapping) ==
    [status |-> 200, key |-> mapping.key, data |-> mapping.data,
     storedDate |-> mapping.storedDate]

\* 404 or 200 once config is loaded.
GetFrom(mappings, id) ==
    IF FoundIndex(mappings, id) = 0
    THEN [status |-> 404]
    ELSE GetOk(mappings[FoundIndex(mappings, id)])

\* The handler up to and including the read of the file by readConfigFile,
\* and the lookup and response that follow the read synchronously.
GetDynamicConfigDataOf(r, ids) ==
    /\ ~Flushing
    /\ pc[r] = "handler"
    /\ req[r].kind = "get"
    /\ \E id \in ids, fault \in BOOLEAN :
        LET request == [kind |-> "get", seq |-> req[r].seq, id |-> id]
        IN  /\ req' = [req EXCEPT ![r] = request]
            /\ IF IdRejected(id)
               THEN /\ Answer(r, request, [status |-> 400])
                    /\ logged' = logged
               ELSE IF fault \/ file.state = "malformed"
               THEN /\ Answer(r, request, [status |-> 500])
                    /\ logged' = [logged EXCEPT ![r] = Append(@, "load")]
               ELSE IF file.state = "absent"
               THEN /\ pc' = [pc EXCEPT ![r] = "getInit"]
                    /\ UNCHANGED <<resp, logged, putLog>>
               ELSE /\ Answer(r, request, GetFrom(file.mappings, id.v))
                    /\ logged' = logged
    /\ UNCHANGED <<file, now, ticks, arrived, cfg, filtered, nextCalls>>

\* GET /get with any of the ids.
getDynamicConfigData(r) == GetDynamicConfigDataOf(r, GetIds)

\* GET /get with one of the ids that race.
getDynamicConfigDataRace(r) == GetDynamicConfigDataOf(r, RaceIds)

\* readConfigFile found no file: it writes { mappings: [] } and returns it.
GetInit(r) ==
    /\ ~Flushing
    /\ pc[r] = "getInit"
    /\ \E fault \in BOOLEAN :
        IF fault
        THEN /\ Answer(r, req[r], [status |-> 500])
             /\ logged' = [logged EXCEPT ![r] = Append(@, "load")]
             /\ file' = file
        ELSE /\ file' = Stored(<<>>)
             /\ Answer(r, req[r], GetFrom(<<>>, req[r].id.v))
             /\ logged' = logged
    /\ UNCHANGED <<now, ticks, arrived, req, cfg, filtered, nextCalls>>

\* ------------------------------------------------------------ serveStaticFile
\* s split at every "/".
RECURSIVE SplitAcc(_, _, _)
SplitAcc(s, cur, acc) ==
    IF s = <<>> THEN Append(acc, cur)
    ELSE IF Head(s) = "/" THEN SplitAcc(Tail(s), <<>>, Append(acc, cur))
    ELSE SplitAcc(Tail(s), Append(cur, Head(s)), acc)

Split(s) == SplitAcc(s, <<>>, <<>>)

\* path.normalize on the segments of an absolute path: "" and "." are
\* dropped, ".." removes the segment before it (and nothing at the root).
RECURSIVE NormalizeAcc(_, _)
NormalizeAcc(segs, out) ==
    IF segs = <<>> THEN out
    ELSE IF Head(segs) \in {<<>>, <<".">>} THEN NormalizeAcc(Tail(segs), out)
    ELSE IF Head(segs) = <<".", ".">>
    THEN NormalizeAcc(Tail(segs),
                      IF out = <<>> THEN out ELSE SubSeq(out, 1, Len(out) - 1))
    ELSE NormalizeAcc(Tail(segs), Append(out, Head(segs)))

RECURSIVE JoinSegs(_)
JoinSegs(segs) ==
    IF segs = <<>> THEN <<>>
    ELSE <<"/">> \o Head(segs) \o JoinSegs(Tail(segs))

\* path.join(dir, name) for an absolute dir and a name with no trailing "/".
PathJoin(dir, name) ==
    LET segs == NormalizeAcc(Split(dir \o <<"/">> \o name), <<>>)
    IN  IF segs = <<>> THEN <<"/">> ELSE JoinSegs(segs)

\* __dirname, and path.join(__dirname, "public") with "p" for "public".
DirName == <<"/", "a">>
PUBLIC_DIR == PathJoin(DirName, <<"p">>)

IndexHtml == <<"i", "n", "d", "e", "x", ".", "h", "t", "m", "l">>

\* Segments a requested name is made of: "pq" is a sibling of the public
\* directory whose name starts with the public directory's name.
SegChoices == {<<".", ".">>, <<"x">>, <<"p">>, <<"p", "q">>}

RECURSIVE NamesOf(_)
NamesOf(n) ==
    IF n = 1 THEN SegChoices
    ELSE NamesOf(n - 1)
            \cup {a \o <<"/">> \o b : a \in NamesOf(n - 1), b \in SegChoices}

\* req.params.filename after decodeURIComponent ("%2F" is "/"); undefined
\* for GET /.
FileNames == {Undefined} \cup {Str(n) : n \in NamesOf(MaxSegs)}

\* What fs.readFile may find at a path.
ReadOutcomes == {"data", "ENOENT", "EISDIR"}

\* The path lies outside the public directory: its segments do not begin
\* with the public directory's.
OutsidePublicDir(filePath) ==
    LET dir == Split(PUBLIC_DIR)
        segs == Split(filePath)
    IN  ~(Len(segs) >= Len(dir) /\ SubSeq(segs, 1, Len(dir)) = dir)

\* !filePath.startsWith(PUBLIC_DIR)
Escapes(filePath) == ~StartsWith(filePath, PUBLIC_DIR)

serveStaticFile(r) ==
    /\ ~Flushing
    /\ pc[r] = "handler"
    /\ req[r].kind = "static"
    /\ \E filename \in FileNames, outcome \in ReadOutcomes :
        LET request == [kind |-> "static", seq |-> req[r].seq,
                        filename |-> filename]
            filePath == PathJoin(PUBLIC_DIR,
                                 IF Truthy(filename) THEN filename.v
                                 ELSE IndexHtml)
        IN  /\ req' = [req EXCEPT ![r] = request]
            /\ Answer(r, request,
                 IF Escapes(filePath)
                 THEN [status |-> 403, filePath |-> filePath, read |-> FALSE]
                 ELSE [status |-> CASE outcome = "data" -> 200
                                    [] outcome = "ENOENT" -> 404
                                    [] OTHER -> 500,
                       filePath |-> filePath, read |-> TRUE])
    /\ UNCHANGED <<file, now, ticks, arrived, cfg, filtered, nextCalls,
                   logged>>

\* ------------------------------------------------------------ specifications
\* Requests handled concurrently: every await is a point where another
\* request's steps may run.
Next ==
    \/ Tick
    \/ \E r \in Slots :
        \/ Arrive(r)
        \/ Finish(r)
        \/ removeDayOldData(r)
        \/ SweepInit(r)
        \/ SweepWrite(r)
        \/ setDynamicConfigRace(r)
        \/ PutInit(r)
        \/ PutSave(r)
        \/ getDynamicConfigDataRace(r)
        \/ GetInit(r)

Spec == Init /\ [][Next]_vars

\* Requests handled one after another.
SeqNext ==
    \/ Tick
    \/ \E r \in Slots :
        \/ ArriveAlone(r)
        \/ Finish(r)
        \/ removeDayOldData(r)
        \/ SweepInit(r)
        \/ SweepWrite(r)
        \/ setDynamicConfig(r)
        \/ PutInit(r)
        \/ PutSave(r)
        \/ getDynamicConfigData(r)
        \/ GetInit(r)

SeqSpec == Init /\ [][SeqNext]_vars

\* Requests handled one after another, drawn from the two-key inputs: the
\* store fills, ages and is swept as under SeqSpec.
SweepNext ==
    \/ Tick
    \/ \E r \in Slots :
        \/ ArriveAlone(r)
        \/ Finish(r)
        \/ removeDayOldData(r)
        \/ SweepInit(r)
        \/ SweepWrite(r)
        \/ setDynamicConfigRace(r)
        \/ PutInit(r)
        \/ PutSave(r)
        \/ getDynamicConfigDataRace(r)
        \/ GetInit(r)

SweepSpec == Init /\ [][SweepNext]_vars

\* Requests for static files only: the store stays empty, so the expiry
\* middleware never writes back.
StaticNext ==
    \E r \in Slots :
        \/ ArriveStatic(r)
        \/ Finish(r)
        \/ removeDayOldData(r)
        \/ SweepInit(r)
        \/ serveStaticFile(r)

StaticSpec == Init /\ [][StaticNext]_vars

\* ----------------------------------------------------------------- properties
Range(seq) == {seq[i] : i \in 1..Len(seq)}

\* A key that passes validation: a string that is not empty once trimmed.
KeyPasses(key) == IsString(key) /\ Trim(key.v) # <<>>

\* Any JSON value: object, array, string, number, boolean or null.
IsJSONValue(data) == data.t # "undefined"

GetDone(r) == pc[r] = "done" /\ req[r].kind = "get"
PutDone(r) == pc[r] = "done" /\ req[r].kind = "put"

\* C1: a put of key k and JSON value v followed directly by get(k), within
\* the same hour and with neither answered 500, is answered 200 with data
\* equal to v and key equal to k.
RoundTrip ==
    \A r \in Slots :
        (/\ GetDone(r)
         /\ putLog # <<>>
         /\ putLog[Len(putLog)].seq + 1 = req[r].seq
         /\ KeyPasses(putLog[Len(putLog)].key)
         /\ IsJSONValue(putLog[Len(putLog)].data)
         /\ req[r].id = putLog[Len(putLog)].key
         /\ putLog[Len(putLog)].status # 500
         /\ resp[r].status # 500)
        => (/\ resp[r].status = 200
            /\ resp[r].data = putLog[Len(putLog)].data
            /\ resp[r].key = putLog[Len(putLog)].key.v)

\* C2: two puts of the same key k, both answered 200, followed directly by
\* get(k) not answered 500: the get is answered 200 with the data of the
\* second put.
Overwrite ==
    \A r \in Slots :
        (/\ GetDone(r)
         /\ Len(putLog) = 2
         /\ putLog[1].seq + 1 = putLog[2].seq
         /\ putLog[2].seq + 1 = req[r].seq
         /\ putLog[1].key = putLog[2].key
         /\ req[r].id = putLog[2].key
         /\ putLog[1].status = 200
         /\ putLog[2].status = 200
         /\ resp[r].status # 500)
        => (/\ resp[r].status = 200
            /\ resp[r].data = ParsedData(putLog[2].data))

\* C3: the store never holds two Mappings with the same key.
KeyUniqueness ==
    \A i, j \in 1..Len(file.mappings) :
        file.mappings[i].key = file.mappings[j].key => i = j

\* The puts C4 is about: the key is missing, null, not a string, empty or
\* empty once trimmed, or the data is absent or a string that is not JSON.
BadPut(body) ==
    \/ body.key.t \in {"undefined", "null"}
    \/ ~IsString(body.key)
    \/ body.key.v = <<>>
    \/ Trim(body.key.v) = <<>>
    \/ body.data.t = "undefined"
    \/ (IsString(body.data) /\ ~JSONParse(body.data.v).ok)

\* C4: the put handler answers such a put 400 and leaves the file as it was.
Validation ==
    [][\A r \in Slots :
        (/\ pc[r] = "handler"
         /\ pc'[r] # "handler"
         /\ req'[r].kind = "put"
         /\ BadPut(req'[r]))
        => (/\ pc'[r] = "done"
            /\ resp'[r].status = 400
            /\ file' = file)]_vars

\* C4's case: a put whose key is blank has been answered 400.
ValidationWitness ==
    \E r \in Slots :
        /\ PutDone(r)
        /\ req[r].key = Str(<<" ">>)
        /\ resp[r].status = 400
        /\ file.state = "ok"

\* now - storedDate, in milliseconds.
Age(mapping, at) == at - DateParse(mapping.storedDate)

\* a is b with some elements left out: same content, same relative order.
RECURSIVE IsSubsequence(_, _)
IsSubsequence(a, b) ==
    IF a = <<>> THEN TRUE
    ELSE IF b = <<>> THEN FALSE
    ELSE IF Head(a) = Head(b) THEN IsSubsequence(Tail(a), Tail(b))
    ELSE IsSubsequence(a, Tail(b))

\* The pass of removeDayOldData for slot r has run to next(): the handler has
\* not started yet.
SweepPassed(r) == pc[r] = "handler"

\* The pass loaded the store and met no error: cfg[r] is the store it loaded,
\* now the instant it filtered at.
SweptClean(r) == SweepPassed(r) /\ logged[r] = <<>>

\* The store holds exactly the Mappings of cfg[r] younger than one day,
\* unchanged and in their order; one of 23 hours is kept, one of 25 hours is
\* not.
KeepsFresh(r) ==
    /\ IsSubsequence(file.mappings, cfg[r])
    /\ \A m \in Range(file.mappings) : Age(m, now) < MsPerDay
    /\ Len(file.mappings) =
        Cardinality({i \in 1..Len(cfg[r]) : Age(cfg[r][i], now) < MsPerDay})
    /\ \A m \in Range(cfg[r]) :
        /\ Age(m, now) = 23 * MsPerHour => m \in Range(file.mappings)
        /\ Age(m, now) = 25 * MsPerHour => m \notin Range(file.mappings)

\* No Mapping of one day or more is in the store.
NoneExpired == \A m \in Range(file.mappings) : Age(m, now) < MsPerDay

IdMissing(id) == id.t = "undefined"
IdBlank(id) == IsString(id) /\ Trim(id.v) = <<>>

\* The Mappings whose key equals the trimmed id exactly.
Matching(mappings, id) ==
    {i \in 1..Len(mappings) : IsString(id) /\ mappings[i].key = Trim(id.v)}

\* The get of slot r is answered 400 when `bad`; otherwise 500 with the load
\* error logged, or else 404 when no Mapping matches and 200 with a matching
\* Mapping's key, data and storedDate when one does.
Classified(r, bad) ==
    IF bad THEN resp[r].status = 400
    ELSE \/ /\ resp[r].status = 500
            /\ logged[r] # <<>>
            /\ logged[r][Len(logged[r])] = "load"
         \/ /\ resp[r].status = 404
            /\ file.state = "ok"
            /\ Matching(file.mappings, req[r].id) = {}
         \/ /\ resp[r].status = 200
            /\ file.state = "ok"
            /\ \E i \in Matching(file.mappings, req[r].id) :
                resp[r] = [status |-> 200, key |-> file.mappings[i].key,
                           data |-> file.mappings[i].data,
                           storedDate |-> file.mappings[i].storedDate]

\* C6 as stated: 400 when the id is missing or empty after trimming, and the
\* 404/200/500 classification for every other id.
GetClassification ==
    \A r \in Slots :
        GetDone(r) => Classified(r, IdMissing(req[r].id) \/ IdBlank(req[r].id))

\* C6 amended: 400 when the id is missing, not a string, or empty after
\* trimming, and the 404/200/500 classification for every other id.
GetClassificationTyped ==
    \A r \in Slots :
        GetDone(r)
        => Classified(r, \/ IdMissing(req[r].id)
                         \/ ~IsString(req[r].id)
                         \/ IdBlank(req[r].id))

\* C6's case: an id with a leading space was looked up trimmed and answered
\* 200 with the Mapping stored under the trimmed key.
GetClassificationWitness ==
    \E r \in Slots :
        /\ GetDone(r)
        /\ req[r].id = Str(KeySpaceA)
        /\ resp[r].status = 200
        /\ resp[r].key = KeyA

SweepStages == {"sweep", "sweepInit", "sweepWrite"}
AfterSweep == {"handler", "putInit", "putSave", "getInit", "done"}

\* The event loop runs every continuation that is ready: a pending step of
\* the expiry middleware and a response's finish event are taken.
SweepStep(r) ==
    Finish(r) \/ removeDayOldData(r) \/ SweepInit(r) \/ SweepWrite(r)

Fairness == \A r \in Slots : WF_vars(SweepStep(r))

FairSweepSpec == SweepSpec /\ Fairness

\* C7: while the expiry middleware runs it has not called next() and has
\* produced no response; once it is through it has called next() exactly
\* once, the handler finds the response untouched; and it always gets through.
FilterCallsThrough ==
    \A r \in Slots :
        /\ [](pc[r] \in SweepStages => nextCalls[r] = 0 /\ resp[r] = NoResp)
        /\ [](pc[r] \in AfterSweep => nextCalls[r] = 1)
        /\ [](pc[r] = "handler" => resp[r] = NoResp)
        /\ (pc[r] = "sweep") ~> (pc[r] = "handler")

\* C7's case: the write-back failed and the request went on to its handler.
FilterCallsThroughWitness ==
    \E r \in Slots :
        /\ pc[r] = "handler"
        /\ nextCalls[r] = 1
        /\ logged[r] = <<"save">>

\* The step in which slot r's put is written and answered 200.
PutSaved(r) ==
    /\ pc[r] = "putSave"
    /\ pc'[r] = "done"
    /\ resp'[r].status = 200

\* The step in which slot r's expiry pass writes the file: its write-back,
\* or the empty store readConfigFile creates when it found no file.
SweepWrote(r) ==
    /\ pc[r] \in {"sweepWrite", "sweepInit"}
    /\ pc'[r] = "handler"
    /\ file' # file

HasKey(mappings, key) == \E m \in Range(mappings) : m.key = key

\* C8: a put that is answered 200 leaves in the file its own copy of the
\* store, the one it loaded with its Mapping put in, whatever was saved since
\* it loaded: the save that comes last wins.
LastSaveWins ==
    [][\A r \in Slots : PutSaved(r) => file' = Stored(cfg[r])]_vars

\* C8's case: two puts with distinct keys have both been answered 200 and
\* the store holds the Mapping of the second one only.
LostWrite ==
    /\ Len(putLog) = 2
    /\ putLog[1].status = 200
    /\ putLog[2].status = 200
    /\ Trim(putLog[1].key.v) # Trim(putLog[2].key.v)
    /\ file.state = "ok"
    /\ ~HasKey(file.mappings, Trim(putLog[1].key.v))
    /\ HasKey(file.mappings, Trim(putLog[2].key.v))

\* C9: a Mapping leaves the store only in the write of an expiry pass, being
\* one day old or older then, or in the save of a put to its key.
Lifecycle ==
    [][\A m \in Range(file.mappings) :
        (file'.state # "ok" \/ m \notin Range(file'.mappings))
        => \/ \E r \in Slots : SweepWrote(r) /\ Age(m, now) >= MsPerDay
           \/ \E r \in Slots : PutSaved(r) /\ Trim(req[r].key.v) = m.key]_vars

\* C10: a name whose resolved path lies outside the public directory is
\* answered 403 without a read, and a file is served only from inside it.
StaticConfinement ==
    \A r \in Slots :
        (pc[r] = "done" /\ req[r].kind = "static")
        => /\ OutsidePublicDir(resp[r].filePath)
                => (resp[r].status = 403 /\ ~resp[r].read)
           /\ resp[r].status = 200 => ~OutsidePublicDir(resp[r].filePath)

\* C11: a get answered 200 never carries a Mapping that was one day old or
\* older when the expiry pass of the same request ran (the clock does not
\* advance while a request is in flight, so that instant is now).
FreshReads ==
    \A r \in Slots :
        (GetDone(r) /\ resp[r].status = 200) => Age(resp[r], now) < MsPerDay

====
